---- MODULE Spec2Model ----
(***************************************************************************)
(* A model of the data-loader ETL: the cross-reference validator           *)
(* (etl/config.py), the view resolver (etl/views.py), the dataset          *)
(* introspector (etl/dataset.py), the relational writer (etl/database.py)  *)
(* and the stage driver (etl/main.py).  Each component has its own         *)
(* specification over its own variables; the other components' variables   *)
(* stay at their idle values.                                              *)
(***************************************************************************)
EXTENDS Integers, Sequences, FiniteSets, TLC

\* Python's None.
None == "None"

\* ------------------------------------------------------------------------
\* Bounds of the model.
MaxFilters == 2     \* catalog entries in a config
MaxViews == 2       \* views in a config / handed to a processor
MaxEntries == 2     \* filter entries declared by one view

\* ------------------------------------------------------------------------
\* State.  One group of variables per component.
VARIABLES
  vc_filters,     \* config["filters"]
  vc_nviews,      \* len(config["views"])
  vc_pc,          \* "filters", "views", "entries", "unused", "ok", "error"
  vc_fi,          \* index of the catalog entry the first loop is at
  vc_vi,          \* index of the view the second loop is at
  vc_view,        \* view["filters"] of that view
  vc_ei,          \* index of the entry the inner loop is at
  used_filters,   \* dict filter id -> bool
  group_ids,      \* set of group ids seen in the current view
  vc_err,         \* which ConfigError was raised
  vc_referenced   \* history: filter ids named by the entries walked so far

vcVars == <<vc_filters, vc_nviews, vc_pc, vc_fi, vc_vi, vc_view, vc_ei,
            used_filters, group_ids, vc_err, vc_referenced>>

VARIABLES
  dp_datasets,    \* self.datasets
  dp_columns,     \* self.columns
  dp_views,       \* the views of the config the overrides belong to
  dp_pc,          \* "run", "done", "error"
  dp_i,           \* index of the dataset the loop is at
  dp_written,     \* names of the dataset documents written
  dp_err

dpVars == <<dp_datasets, dp_columns, dp_views, dp_pc, dp_i, dp_written, dp_err>>

VARIABLES
  db_datasets,       \* self.datasets
  db_nviews,         \* len(self.views)
  db_pc,             \* "schema", "datasets", "views", "release", "done", "error"
  db_di,             \* index of the dataset run() is at
  db_vi,             \* index of the view run() is at
  db_schema_loads,   \* how many times the schema script was executed
  db_rows,           \* the rows inserted, in the order of the INSERTs
  ids,               \* self.ids
  dataset_lookup,    \* self._dataset_lookup
  column_lookup,     \* self._column_lookup
  db_err             \* the exception that ended run()

dbVars == <<db_datasets, db_nviews, db_pc, db_di, db_vi, db_schema_loads,
            db_rows, ids, dataset_lookup, column_lookup, db_err>>

VARIABLES
  vp_warn_max,    \* self.warn_max
  vp_filters,     \* self.filters: the catalog
  vp_datasets,    \* self.datasets
  vp_columns,     \* self.columns
  vp_nviews,      \* len(self.views)
  vp_pc,          \* where run() is
  vp_vi,          \* index of the view run() is at
  vp_view,        \* the view run() is at
  vp_groups,      \* normalised_groups
  vp_gi,          \* index of the group the loop is at
  vp_fi,          \* index of the view-filter the inner loop is at
  vp_queries,     \* the distinct-value queries issued, in order
  vp_warnings,    \* the warnings logged, in order
  vp_written,     \* ids of the view documents written, in order
  vp_err          \* the exception that ended run()

vpVars == <<vp_warn_max, vp_filters, vp_datasets, vp_columns, vp_nviews, vp_pc,
            vp_vi,
            vp_view, vp_groups, vp_gi, vp_fi, vp_queries, vp_warnings,
            vp_written, vp_err>>

VARIABLES
  etl_pc,         \* the stage run_etl is at
  etl_force,      \* cli.force
  etl_release,    \* the release directory: "absent", "old", "fresh"
  etl_removed,    \* an existing release directory was removed
  etl_files,      \* the files written under the release directory
  etl_data,       \* the dataset declarations of the data document
  etl_err         \* the exception that ended run_etl

etlVars == <<etl_pc, etl_force, etl_release, etl_removed, etl_files, etl_data,
             etl_err>>

\* populate_additional_columns applied to one view
VARIABLES
  en_columns,     \* self.columns
  en_dataset,     \* the dataset of view.source
  en_declared,    \* the view as declared
  en_view,        \* the view object
  en_once,        \* the view after the first application
  en_pc           \* how often populate_additional_columns has been applied

enVars == <<en_columns, en_dataset, en_declared, en_view, en_once, en_pc>>

\* two DatabaseConfig instances run one after the other on the same input
VARIABLES
  rr_datasets,    \* the datasets handed to both instances
  rr_views,       \* the views handed to both instances
  rr_first,       \* what the first instance's run() left: rows and exception
  rr_pc           \* "construct", "running" or "done"

rrVars == <<rr_datasets, rr_views, rr_first, rr_pc>>

vars == <<vcVars, dpVars, dbVars, vpVars, etlVars, enVars, rrVars>>

\* ------------------------------------------------------------------------
\* Small helpers.
Range(s) == {s[i] : i \in DOMAIN s}

SeqsUpTo(S, n) == UNION {[1..k -> S] : k \in 0..n}

PairwiseDistinct(s) == \A i, j \in DOMAIN s : i # j => s[i] # s[j]

\* ------------------------------------------------------------------------
\* Input shapes.

\* models.SingleQueryColumn / models.LocationQueryColumns / no query_columns.
\* strand and bin are optional (None when absent).
NoQC ==
  [kind |-> "none", column |-> None, region |-> None, start |-> None,
   end |-> None, strand |-> None, bin |-> None]

SingleQueryColumn(c) == [NoQC EXCEPT !.kind = "single", !.column = c]

LocationQueryColumns(r, s, e, st, b) ==
  [kind |-> "location", column |-> None, region |-> r, start |-> s,
   end |-> e, strand |-> st, bin |-> b]

\* models.ViewFilter as parsed, {"filter_id": ...}: every copied field unset.
\* An optional list is <<>> when None and <<list>> when set.
\* rank is 0 while None.
ViewFilter(fid) ==
  [kind |-> "filter", filter_id |-> fid, label |-> None, type |-> None,
   match |-> None, min |-> None, max |-> None, rank |-> 0,
   filter_values |-> <<>>, query_columns |-> NoQC, regex |-> None,
   group_id |-> None, group_label |-> None, filters |-> <<>>]

\* A bare view-filter reference at the view level.
Bare(fid) == ViewFilter(fid)

\* models.ViewFilterGroup: {"group_id", "group_label", "filters": [...]}.
ViewFilterGroup(gid, glabel, members) ==
  [kind |-> "group", filter_id |-> None, label |-> None, type |-> None,
   match |-> None, min |-> None, max |-> None, rank |-> 0,
   filter_values |-> <<>>, query_columns |-> NoQC, regex |-> None,
   group_id |-> gid, group_label |-> glabel, filters |-> members]

\* A declared group over filter ids.
Group(gid, glabel, fids) ==
  ViewFilterGroup(gid, glabel, [i \in DOMAIN fids |-> ViewFilter(fids[i])])

FilterIds == {"a", "b"}

\* Entries a view may declare.  Group ids overlap with filter ids ("a") so
\* that an explicit group can be named like a filter.
EntryChoices ==
  {Bare(f) : f \in FilterIds}
    \cup {Group("g", "G", <<"a">>), Group("a", "G", <<"b">>),
          Group("g", "G", <<"a", "b">>)}

ViewFilterLists == SeqsUpTo(EntryChoices, MaxEntries)

\* A normalisation that returns the groups last entry first.
normalise_to_groups_reversed(view_filters) ==
  [i \in DOMAIN view_filters |->
     LET entry == view_filters[Len(view_filters) + 1 - i] IN
       IF entry.kind = "group"
         THEN entry
         ELSE ViewFilterGroup(entry.filter_id, entry.filter_id, <<entry>>)]

\* etl/views.py: ViewsProcessor.normalise_to_groups, on view.filters.
normalise_to_groups(view_filters) ==
  [i \in DOMAIN view_filters |->
     LET entry == view_filters[i] IN
       IF entry.kind = "group"
         THEN entry
         ELSE ViewFilterGroup(entry.filter_id, entry.filter_id, <<entry>>)]

\* ========================================================================
\* etl/config.py: validate_config
\* ========================================================================

supported_filters ==
  {"select", "select_in", "select_list", "range", "location", "list_contains"}

\* Catalog entries of the parsed config document: "text" is a type outside
\* the supported set.
CatalogEntryChoices ==
  {[id |-> "a", type |-> "select_list"],
   [id |-> "b", type |-> "location"],
   [id |-> "b", type |-> "text"]}

CatalogChoices == SeqsUpTo(CatalogEntryChoices, MaxFilters)

EmptyDict == [x \in {} |-> FALSE]

\* A marking that takes any id, in the catalog or not.
mark_filter_used_any_id(filter, used) ==
  [err |-> FALSE, used |-> (filter.filter_id :> TRUE) @@ used]

\* _mark_filter_used: ConfigError when the id is not a catalog id.
mark_filter_used(filter, used) ==
  IF filter.filter_id \notin DOMAIN used
    THEN [err |-> TRUE, used |-> used]
    ELSE [err |-> FALSE, used |-> [used EXCEPT ![filter.filter_id] = TRUE]]

\* for filter in entry["filters"]: _mark_filter_used(filter, view, used_filters)
RECURSIVE mark_members(_, _)
mark_members(members, used) ==
  IF members = <<>> THEN [err |-> FALSE, used |-> used]
  ELSE LET r == mark_filter_used(Head(members), used)
       IN IF r.err THEN r ELSE mark_members(Tail(members), r.used)

\* "group_id" in entry
IsGroupEntry(entry) == entry.kind = "group"

\* The body of `for entry in view["filters"]` for one entry.
walk_entry(entry, gids, used) ==
  IF IsGroupEntry(entry)
    THEN IF entry.group_id \in gids
           THEN [err |-> "duplicate_group", gids |-> gids, used |-> used]
           ELSE LET r == mark_members(entry.filters, used)
                IN [err |-> IF r.err THEN "unknown_filter" ELSE None,
                    gids |-> gids \cup {entry.group_id}, used |-> r.used]
    ELSE LET r == mark_filter_used(entry, used)
         IN [err |-> IF r.err THEN "unknown_filter" ELSE None,
             gids |-> gids, used |-> r.used]

\* The filter ids an entry names (bare: its own; group: its members').
EntryFilterIds(entry) ==
  IF entry.kind = "group"
    THEN {entry.filters[i].filter_id : i \in DOMAIN entry.filters}
    ELSE {entry.filter_id}

ConfigInit ==
  /\ vc_filters \in CatalogChoices
  /\ vc_nviews \in 0..MaxViews
  /\ vc_pc = "filters"
  /\ vc_fi = 1
  /\ vc_vi = 1
  /\ vc_view = <<>>
  /\ vc_ei = 1
  /\ used_filters = EmptyDict
  /\ group_ids = {}
  /\ vc_err = None
  /\ vc_referenced = {}

ConfigIdle ==
  /\ vc_filters = <<>>
  /\ vc_nviews = 0
  /\ vc_pc = "idle"
  /\ vc_fi = 1
  /\ vc_vi = 1
  /\ vc_view = <<>>
  /\ vc_ei = 1
  /\ used_filters = EmptyDict
  /\ group_ids = {}
  /\ vc_err = None
  /\ vc_referenced = {}

\* for f in config["filters"]: one iteration.
CheckFilter ==
  /\ UNCHANGED <<dpVars, dbVars, vpVars, etlVars, enVars, rrVars>>
  /\ vc_pc = "filters"
  /\ vc_fi <= Len(vc_filters)
  /\ LET f == vc_filters[vc_fi] IN
       IF f.type \notin supported_filters
         THEN /\ vc_pc' = "error"
              /\ vc_err' = "unknown_type"
              /\ UNCHANGED <<vc_fi, used_filters>>
         ELSE IF f.id \in DOMAIN used_filters
           THEN /\ vc_pc' = "error"
                /\ vc_err' = "duplicate_filter"
                /\ UNCHANGED <<vc_fi, used_filters>>
           ELSE /\ used_filters' = (f.id :> FALSE) @@ used_filters
                /\ vc_fi' = vc_fi + 1
                /\ UNCHANGED <<vc_pc, vc_err>>
  /\ UNCHANGED <<vc_filters, vc_nviews, vc_vi, vc_view, vc_ei, group_ids,
                 vc_referenced>>

\* The catalog loop is exhausted: on to the views.
FiltersChecked ==
  /\ UNCHANGED <<dpVars, dbVars, vpVars, etlVars, enVars, rrVars>>
  /\ vc_pc = "filters"
  /\ vc_fi > Len(vc_filters)
  /\ vc_pc' = "views"
  /\ UNCHANGED <<vc_filters, vc_nviews, vc_fi, vc_vi, vc_view, vc_ei,
                 used_filters, group_ids, vc_err, vc_referenced>>

\* for view in config["views"]: the loop takes the next view; group_ids = set().
\* The view's entries are an input, read when the loop reaches the view.
TakeView ==
  /\ UNCHANGED <<dpVars, dbVars, vpVars, etlVars, enVars, rrVars>>
  /\ vc_pc = "views"
  /\ vc_vi <= vc_nviews
  /\ \E fl \in ViewFilterLists : vc_view' = fl
  /\ group_ids' = {}
  /\ vc_ei' = 1
  /\ vc_pc' = "entries"
  /\ UNCHANGED <<vc_filters, vc_nviews, vc_fi, vc_vi, used_filters, vc_err,
                 vc_referenced>>

\* for entry in view["filters"]: one iteration.
WalkEntry ==
  /\ UNCHANGED <<dpVars, dbVars, vpVars, etlVars, enVars, rrVars>>
  /\ vc_pc = "entries"
  /\ vc_ei <= Len(vc_view)
  /\ LET entry == vc_view[vc_ei]
         r == walk_entry(entry, group_ids, used_filters)
     IN /\ group_ids' = r.gids
        /\ used_filters' = r.used
        /\ vc_referenced' = vc_referenced \cup EntryFilterIds(entry)
        /\ IF r.err # None
             THEN /\ vc_pc' = "error"
                  /\ vc_err' = r.err
                  /\ UNCHANGED vc_ei
             ELSE /\ vc_ei' = vc_ei + 1
                  /\ UNCHANGED <<vc_pc, vc_err>>
  /\ UNCHANGED <<vc_filters, vc_nviews, vc_fi, vc_vi, vc_view>>

\* The entries of the current view are exhausted: back to the outer loop.
ViewWalked ==
  /\ UNCHANGED <<dpVars, dbVars, vpVars, etlVars, enVars, rrVars>>
  /\ vc_pc = "entries"
  /\ vc_ei > Len(vc_view)
  /\ vc_pc' = "views"
  /\ vc_vi' = vc_vi + 1
  /\ UNCHANGED <<vc_filters, vc_nviews, vc_fi, vc_view, vc_ei, used_filters,
                 group_ids, vc_err, vc_referenced>>

\* The loop over the views is exhausted: on to the unused-filter check.
ViewsWalked ==
  /\ UNCHANGED <<dpVars, dbVars, vpVars, etlVars, enVars, rrVars>>
  /\ vc_pc = "views"
  /\ vc_vi > vc_nviews
  /\ vc_pc' = "unused"
  /\ UNCHANGED <<vc_filters, vc_nviews, vc_fi, vc_vi, vc_view, vc_ei,
                 used_filters, group_ids, vc_err, vc_referenced>>

\* A check that finds no filter unused.
unused_filters_none(used) == {}

\* for f, used in used_filters.items(): if not used: raise
unused_filters(used) == {f \in DOMAIN used : ~used[f]}

CheckUnused ==
  /\ UNCHANGED <<dpVars, dbVars, vpVars, etlVars, enVars, rrVars>>
  /\ vc_pc = "unused"
  /\ IF unused_filters(used_filters) # {}
       THEN vc_pc' = "error" /\ vc_err' = "unused_filter"
       ELSE vc_pc' = "ok" /\ UNCHANGED vc_err
  /\ UNCHANGED <<vc_filters, vc_nviews, vc_fi, vc_vi, vc_view, vc_ei,
                 used_filters, group_ids, vc_referenced>>

ConfigNext ==
  \/ CheckFilter
  \/ FiltersChecked
  \/ TakeView
  \/ WalkEntry
  \/ ViewWalked
  \/ ViewsWalked
  \/ CheckUnused

\* ========================================================================
\* etl/models.py: Column, Dataset; etl/dataset.py: DatasetsProcessor
\* ========================================================================

\* models.Column with its defaults; name and label are None until set.
Column(name, label) ==
  [name |-> name, label |-> label, sortable |-> TRUE, hidden |-> FALSE,
   type |-> "string", url |-> None, delimiter |-> None]

\* label = column_name.replace("_", " "); label[0].upper() + label[1:]
DerivedLabel(column_name) ==
  CASE column_name = "a" -> "A"
    [] column_name = "chrom" -> "Chrom"
    [] column_name = "start" -> "Start"
    [] column_name = "end_pos" -> "End pos"
    [] column_name = "zz" -> "Zz"

\* models.Dataset.  schema and rows are the content of the parquet file that
\* Transform wrote for the dataset (its column names in file order; a row
\* maps a column to a cell, 0 being NULL).  columns is <<>> while None.
Dataset(name, schema, rows) ==
  [name |-> name, parquet_path |-> "release/name.parquet", schema |-> schema,
   rows |-> rows, columns |-> <<>>, column_metadata_path |-> None]

NULL == 0

D1 ==
  Dataset("d1", <<"a", "chrom", "start", "end_pos">>,
          <<[a |-> 1, chrom |-> 2, start |-> 1, end_pos |-> 1],
            [a |-> 1, chrom |-> 1, start |-> 1, end_pos |-> 1],
            [a |-> NULL, chrom |-> 1, start |-> 1, end_pos |-> 1],
            [a |-> 2, chrom |-> 1, start |-> 1, end_pos |-> 1]>>)

D2 ==
  Dataset("d2", <<"a", "chrom">>,
          <<[a |-> NULL, chrom |-> 1]>>)

DatasetLists == {<<D1>>, <<D1, D2>>, <<D2, D1>>}

\* A per-column override as written in config["columns"][key][column].
OverrideChoices ==
  {[Column(None, None) EXCEPT !.type = "link", !.url = "u"],
   [Column(None, "Lbl") EXCEPT !.sortable = FALSE, !.hidden = TRUE]}

\* config["columns"]: key -> column name -> Column.  models.Config and
\* ViewsProcessor document the key as the view id.
ColumnsKeys == {"d1", "v1"}

ColumnsChoices ==
  {EmptyDict}
    \cup {(k :> (c :> o)) : k \in ColumnsKeys, c \in {"chrom", "zz"},
                            o \in OverrideChoices}
    \cup {("d1" :> ("a" :> o)) @@ ("v1" :> ("zz" :> o)) : o \in OverrideChoices}

\* dict.get(key, {})
DictGet(d, k) == IF k \in DOMAIN d THEN d[k] ELSE EmptyDict

\* What the introspector needs of a view: its id and its source.
ViewRefChoices == [id : {"v1", "d1"}, source : {"d1", "d2"}]

\* The key under which DatasetsProcessor.run looks the overrides up.
OverridesKey(dataset) == dataset.name

\* process_dataset: the first loop, over the rows of (describe parquet).
process_columns(schema, columns) ==
  [i \in DOMAIN schema |->
     LET column_name == schema[i]
         column_config == IF column_name \in DOMAIN columns
                            THEN columns[column_name]
                            ELSE Column(None, None)
     IN [column_config EXCEPT
           !.name = column_name,
           !.label = IF column_config.label = None
                       THEN DerivedLabel(column_name)
                       ELSE column_config.label]]

\* process_dataset: the second loop; the override names absent from the file.
missing_columns(schema, columns) == DOMAIN columns \ Range(schema)

DatasetsInit ==
  /\ dp_datasets \in DatasetLists
  /\ dp_columns \in ColumnsChoices
  /\ dp_views \in SeqsUpTo(ViewRefChoices, MaxViews)
  /\ dp_pc = "run"
  /\ dp_i = 1
  /\ dp_written = <<>>
  /\ dp_err = None

DatasetsIdle ==
  /\ dp_datasets = <<>>
  /\ dp_columns = EmptyDict
  /\ dp_views = <<>>
  /\ dp_pc = "idle"
  /\ dp_i = 1
  /\ dp_written = <<>>
  /\ dp_err = None

\* for dataset in self.datasets: one iteration.
ProcessDataset ==
  /\ UNCHANGED <<vcVars, dbVars, vpVars, etlVars, enVars, rrVars>>
  /\ dp_pc = "run"
  /\ dp_i <= Len(dp_datasets)
  /\ LET dataset == dp_datasets[dp_i]
         columns == DictGet(dp_columns, OverridesKey(dataset))
     IN IF dataset.parquet_path = None
          THEN /\ dp_pc' = "error"
               /\ dp_err' = "DatasetsProcessorError"
               /\ UNCHANGED <<dp_datasets, dp_i, dp_written>>
          ELSE IF missing_columns(dataset.schema, columns) # {}
            THEN /\ dp_pc' = "error"
                 /\ dp_err' = "DatasetsProcessorError"
                 /\ UNCHANGED <<dp_datasets, dp_i, dp_written>>
            ELSE /\ dp_datasets' =
                      [dp_datasets EXCEPT ![dp_i] =
                         [dataset EXCEPT
                            !.columns = <<process_columns(dataset.schema, columns)>>,
                            !.column_metadata_path = "release/dataset-name.json"]]
                 /\ dp_written' = Append(dp_written, dataset.name)
                 /\ dp_i' = dp_i + 1
                 /\ UNCHANGED <<dp_pc, dp_err>>
  /\ UNCHANGED <<dp_columns, dp_views>>

DatasetsProcessed ==
  /\ UNCHANGED <<vcVars, dbVars, vpVars, etlVars, enVars, rrVars>>
  /\ dp_pc = "run"
  /\ dp_i > Len(dp_datasets)
  /\ dp_pc' = "done"
  /\ UNCHANGED <<dp_datasets, dp_columns, dp_views, dp_i, dp_written, dp_err>>

DatasetsNext ==
  \/ ProcessDataset
  \/ DatasetsProcessed

\* ========================================================================
\* etl/database.py: DatabaseConfig
\* ========================================================================

\* The module-level schema_version passed to generate_release.
schema_version == "v2"

\* A dataset as DatasetsProcessor leaves it: columns introspected, no overrides.
Introspected(dataset) ==
  [dataset EXCEPT !.columns = <<process_columns(dataset.schema, EmptyDict)>>,
                  !.column_metadata_path = "release/dataset-name.json"]

WriterDatasetLists ==
  {<<>>, <<Introspected(D1)>>, <<Introspected(D2), Introspected(D1)>>}

\* An attribute the object does not define: reading it raises AttributeError.
NoAttr == "NoAttr"

\* The elements of view.filters as write_view reads them.  write_view reads
\* filter_id, label, type, match, primary, rank, min, max, query_columns and
\* filter_values of each element.  models.ViewFilter defines no `primary`
\* and models.ViewFilterGroup no `filter_id`: such elements carry NoAttr there.
WriterFilter(fid, type, values, primary) ==
  [ViewFilter(fid) EXCEPT !.type = type, !.filter_values = values, !.rank = 1]
    @@ [primary |-> primary]

WriterFilterChoices ==
  {WriterFilter("a", "select_list", <<<<"1", "2">>>>, "False"),
   WriterFilter("b", "location", <<>>, "True"),
   WriterFilter("a", "select_list", <<<<"1">>>>, NoAttr),
   [ViewFilterGroup("g", "G", <<ViewFilter("a")>>) EXCEPT !.filter_id = NoAttr]
     @@ [primary |-> NoAttr]}

\* The views handed to the writer.  write_view reads view.dataset; models.View
\* defines `source` and no `dataset`, so a models.View carries NoAttr there.
WriterViewChoices ==
  [id : {"v"}, source : {"d1"}, dataset : {"d1", "dx", NoAttr},
   filters : SeqsUpTo(WriterFilterChoices, MaxEntries),
   columns : {<<>>, <<"a">>, <<"chrom", "a">>, <<"a", "zz">>}]

\* next_id: the id handed out and the counters afterwards.
next_id(counters, table) ==
  LET current_id == IF table \in DOMAIN counters THEN counters[table] ELSE 1
  IN [id |-> current_id,
      ids |-> (table :> (current_id + 1)) @@ counters]

\* f"{dataset.name}-{column.name}"; the names of the model hold no "-", so
\* the pair stands for the joined string.
fullname(dataset_name, column_name) == <<dataset_name, column_name>>

Row(table, cols) == [table |-> table, cols |-> cols]

\* write_dataset: the column loop, from column i on.  st = [rows, ids, lookup].
RECURSIVE write_columns(_, _, _, _)
write_columns(dataset, dataset_db_id, i, st) ==
  IF dataset.columns = <<>> \/ i > Len(dataset.columns[1]) THEN st
  ELSE LET column == dataset.columns[1][i]
           n == next_id(st.ids, "column_def")
       IN write_columns(dataset, dataset_db_id, i + 1,
            [rows |-> Append(st.rows,
                        Row("column_def",
                            [column_id |-> n.id, dataset_id |-> dataset_db_id,
                             name |-> column.name])),
             ids |-> n.ids,
             lookup |-> (fullname(dataset.name, column.name) :> n.id)
                          @@ st.lookup])

\* write_view: the INSERTs of a view-filter's values, from value i on.
RECURSIVE write_values(_, _, _, _)
write_values(values, view_filter_db_id, i, rows) ==
  IF i > Len(values) THEN rows
  ELSE write_values(values, view_filter_db_id, i + 1,
         Append(rows, Row("view_filter_value",
                          [view_filter_id |-> view_filter_db_id,
                           value |-> values[i], label |-> values[i]])))

\* write_view: the filter loop, from element i on.  st = [rows, ids, err].
RECURSIVE write_filters(_, _, _, _)
write_filters(view, view_db_id, i, st) ==
  IF st.err # None \/ i > Len(view.filters) THEN st
  ELSE LET view_filter == view.filters[i]
           n == next_id(st.ids, "view_filter")
       IN IF view_filter.filter_id = NoAttr \/ view_filter.primary = NoAttr
            THEN [st EXCEPT !.ids = n.ids, !.err = "AttributeError"]
            ELSE LET inserted ==
                       Append(st.rows,
                         Row("view_filter",
                             [view_filter_id |-> n.id, view_id |-> view_db_id,
                              id |-> view_filter.filter_id]))
                     with_values ==
                       IF view_filter.type = "select_list"
                            /\ view_filter.filter_values # <<>>
                         THEN write_values(view_filter.filter_values[1], n.id,
                                           1, inserted)
                         ELSE inserted
                 IN write_filters(view, view_db_id, i + 1,
                      [st EXCEPT !.rows = with_values, !.ids = n.ids])

\* write_view: the column loop, from column i on.
RECURSIVE write_view_columns(_, _, _, _, _)
write_view_columns(view, view_db_id, lookup, i, st) ==
  IF st.err # None \/ i > Len(view.columns) THEN st
  ELSE LET name == fullname(view.dataset, view.columns[i])
       IN IF name \notin DOMAIN lookup
            THEN [st EXCEPT !.err = "KeyError"]
            ELSE write_view_columns(view, view_db_id, lookup, i + 1,
                   [st EXCEPT !.rows =
                      Append(st.rows,
                        Row("view_column",
                            [view_id |-> view_db_id,
                             column_id |-> lookup[name], rank |-> i]))])

\* write_view, whole: [rows, ids, err] after it returned or raised.
write_view(view, rows, counters, dlookup, clookup) ==
  LET n == next_id(counters, "view")
      st0 == [rows |-> rows, ids |-> n.ids, err |-> None]
  IN IF view.dataset = NoAttr THEN [st0 EXCEPT !.err = "AttributeError"]
     ELSE IF view.dataset \notin DOMAIN dlookup
       THEN [st0 EXCEPT !.err = "KeyError"]
       ELSE LET st1 == [st0 EXCEPT !.rows =
                          Append(rows,
                            Row("view",
                                [view_id |-> n.id, id |-> view.id,
                                 dataset_id |-> dlookup[view.dataset]]))]
                st2 == write_filters(view, n.id, 1, st1)
            IN write_view_columns(view, n.id, clookup, 1, st2)

WriterInit ==
  /\ db_datasets \in WriterDatasetLists
  /\ db_nviews \in 0..MaxViews
  /\ db_pc = "schema"
  /\ db_di = 1
  /\ db_vi = 1
  /\ db_schema_loads = 0
  /\ db_rows = <<>>
  /\ ids = EmptyDict
  /\ dataset_lookup = EmptyDict
  /\ column_lookup = EmptyDict
  /\ db_err = None

WriterIdle ==
  /\ db_datasets = <<>>
  /\ db_nviews = 0
  /\ db_pc = "idle"
  /\ db_di = 1
  /\ db_vi = 1
  /\ db_schema_loads = 0
  /\ db_rows = <<>>
  /\ ids = EmptyDict
  /\ dataset_lookup = EmptyDict
  /\ column_lookup = EmptyDict
  /\ db_err = None

\* self.load_schema()
LoadSchema ==
  /\ UNCHANGED <<vcVars, dpVars, vpVars, etlVars, enVars, rrVars>>
  /\ db_pc = "schema"
  /\ db_schema_loads' = db_schema_loads + 1
  /\ db_pc' = "datasets"
  /\ UNCHANGED <<db_datasets, db_nviews, db_di, db_vi, db_rows, ids,
                 dataset_lookup, column_lookup, db_err>>

\* for dataset in self.datasets: self.write_dataset(dataset)
WriteDataset ==
  /\ UNCHANGED <<vcVars, dpVars, vpVars, etlVars, enVars, rrVars>>
  /\ db_pc = "datasets"
  /\ db_di <= Len(db_datasets)
  /\ LET dataset == db_datasets[db_di]
         n == next_id(ids, "dataset")
         st == write_columns(dataset, n.id, 1,
                 [rows |-> Append(db_rows,
                             Row("dataset",
                                 [dataset_id |-> n.id, name |-> dataset.name])),
                  ids |-> n.ids, lookup |-> column_lookup])
     IN /\ dataset_lookup' = (dataset.name :> n.id) @@ dataset_lookup
        /\ db_rows' = st.rows
        /\ ids' = st.ids
        /\ column_lookup' = st.lookup
  /\ db_di' = db_di + 1
  /\ UNCHANGED <<db_datasets, db_nviews, db_pc, db_vi, db_schema_loads, db_err>>

DatasetsWritten ==
  /\ UNCHANGED <<vcVars, dpVars, vpVars, etlVars, enVars, rrVars>>
  /\ db_pc = "datasets"
  /\ db_di > Len(db_datasets)
  /\ db_pc' = "views"
  /\ UNCHANGED <<db_datasets, db_nviews, db_di, db_vi, db_schema_loads,
                 db_rows, ids, dataset_lookup, column_lookup, db_err>>

\* for view in self.views: self.write_view(view)
WriteView ==
  /\ UNCHANGED <<vcVars, dpVars, vpVars, etlVars, enVars, rrVars>>
  /\ db_pc = "views"
  /\ db_vi <= db_nviews
  /\ \E view \in WriterViewChoices :
       LET st == write_view(view, db_rows, ids, dataset_lookup, column_lookup)
       IN /\ db_rows' = st.rows
          /\ ids' = st.ids
          /\ db_err' = st.err
          /\ IF st.err # None
               THEN db_pc' = "error" /\ UNCHANGED db_vi
               ELSE db_vi' = db_vi + 1 /\ UNCHANGED db_pc
  /\ UNCHANGED <<db_datasets, db_nviews, db_di, db_schema_loads,
                 dataset_lookup, column_lookup>>

ViewsWritten ==
  /\ UNCHANGED <<vcVars, dpVars, vpVars, etlVars, enVars, rrVars>>
  /\ db_pc = "views"
  /\ db_vi > db_nviews
  /\ db_pc' = "release"
  /\ UNCHANGED <<db_datasets, db_nviews, db_di, db_vi, db_schema_loads,
                 db_rows, ids, dataset_lookup, column_lookup, db_err>>

\* self.generate_release()
GenerateRelease ==
  /\ UNCHANGED <<vcVars, dpVars, vpVars, etlVars, enVars, rrVars>>
  /\ db_pc = "release"
  /\ db_rows' = Append(db_rows,
                  Row("release", [release_label |-> "%Y-%m",
                                  schema_version |-> schema_version]))
  /\ db_pc' = "done"
  /\ UNCHANGED <<db_datasets, db_nviews, db_di, db_vi, db_schema_loads, ids,
                 dataset_lookup, column_lookup, db_err>>

WriterNext ==
  \/ LoadSchema
  \/ WriteDataset
  \/ DatasetsWritten
  \/ WriteView
  \/ ViewsWritten
  \/ GenerateRelease

\* ========================================================================
\* etl/views.py: ViewsProcessor
\* ========================================================================

\* models.Filter.
Filter(id, label, type, match, filter_labels, query_columns) ==
  [id |-> id, label |-> label, type |-> type, match |-> match,
   filter_labels |-> filter_labels, min |-> None, max |-> None,
   query_columns |-> query_columns, regex |-> None]

\* Catalogs handed to the resolver.  "zz" is a column of no dataset.
SelectListA == Filter("a", "A", "select_list", None, "chrom", NoQC)

LocationB ==
  Filter("b", "B", "location", None, None,
         LocationQueryColumns("chrom", "start", "end_pos", None, None))

FilterAChoices ==
  {SelectListA,
   Filter("a", "A", "select_list", None, "a", SingleQueryColumn("zz")),
   Filter("a", "", "select", "exact", None, SingleQueryColumn("chrom"))}

\* A select_list filter without query_columns whose id is a column of no
\* dataset.
SelectListB == Filter("b", "B", "select_list", None, "chrom", NoQC)

FilterBChoices ==
  {LocationB,
   Filter("b", "B", "location", None, None,
          LocationQueryColumns("chrom", "start", "end_pos", "zz", None)),
   Filter("b", "B", "location", None, None,
          LocationQueryColumns("chrom", "start", "end_pos", None, "zz"))}

FilterCatalogs ==
  {<<SelectListA>>}
    \cup {<<fa, LocationB>> : fa \in FilterAChoices}
    \cup {<<SelectListA, fb>> : fb \in FilterBChoices \cup {SelectListB}}

\* models.ViewColumn as parsed; rank is 0 while None.
ViewColumn(name) ==
  [name |-> name, enabled |-> TRUE, rank |-> 0, label |-> None,
   sortable |-> TRUE, hidden |-> FALSE, type |-> "string", url |-> None,
   delimiter |-> None]

\* models.View.
View(id, source, include_remaining_columns, view_filters, columns) ==
  [id |-> id, source |-> source,
   include_remaining_columns |-> include_remaining_columns,
   filters |-> view_filters, columns |-> columns]

ViewIds == <<"v1", "v2", "v3", "v4">>

ResolverEntryChoices ==
  {Bare("a"), Bare("b"), Group("s", "S", <<"a">>), Group("g", "G", <<"a", "b">>)}

\* The views the resolver may be handed at position i of self.views.
ResolverViewChoices(i) ==
  {View(ViewIds[i], "d1", inc, fl, <<ViewColumn("chrom")>>) :
     inc \in BOOLEAN, fl \in SeqsUpTo(ResolverEntryChoices, MaxEntries)}
    \cup {View(ViewIds[i], src, FALSE, fl, <<ViewColumn("chrom")>>) :
             src \in {"d2", "dx"},
             fl \in SeqsUpTo(ResolverEntryChoices, MaxEntries)}

\* The datasets as DatasetsProcessor.run leaves them for the overrides `columns`.
ProcessedDatasets(datasets, columns) ==
  [i \in DOMAIN datasets |->
     [datasets[i] EXCEPT
        !.columns = <<process_columns(datasets[i].schema,
                                      DictGet(columns, OverridesKey(datasets[i])))>>,
        !.column_metadata_path = "release/dataset-name.json"]]

ResolverColumnsChoices ==
  {EmptyDict,
   ("v1" :> ("chrom" :> [Column(None, "Lbl") EXCEPT !.type = "link", !.url = "u"]))}

\* get_filter_definition: <<filter>> when found, <<>> when FilterError.
RECURSIVE get_filter_definition(_, _)
get_filter_definition(catalog, view_filter) ==
  IF catalog = <<>> THEN <<>>
  ELSE IF Head(catalog).id = view_filter.filter_id THEN <<Head(catalog)>>
  ELSE get_filter_definition(Tail(catalog), view_filter)

\* get_dataset: <<dataset>> when found, <<>> when FilterError.
RECURSIVE get_dataset(_, _)
get_dataset(datasets, source_name) ==
  IF datasets = <<>> THEN <<>>
  ELSE IF Head(datasets).name = source_name THEN <<Head(datasets)>>
  ELSE get_dataset(Tail(datasets), source_name)

\* Filter.target_column
target_column(filter) ==
  IF filter.query_columns.kind = "single"
    THEN filter.query_columns.column
    ELSE filter.id

\* A validation that checks the single column and the region, start and end
\* roles only.
query_columns_missing_required_only(filter_def, available_columns) ==
  LET qc == filter_def.query_columns
  IN CASE qc.kind = "none" -> FALSE
       [] qc.kind = "single" -> qc.column \notin available_columns
       [] qc.kind = "location" ->
            \E role \in {"region", "start", "end"} :
              qc[role] \notin available_columns

\* validate_query_columns, for one catalog filter: TRUE when it raises.
\* available_columns is the set of names of dataset.columns.
query_columns_missing(filter_def, available_columns) ==
  LET qc == filter_def.query_columns
  IN CASE qc.kind = "none" -> FALSE
       [] qc.kind = "single" -> qc.column \notin available_columns
       [] qc.kind = "location" ->
            \/ \E role \in {"region", "start", "end"} :
                 qc[role] \notin available_columns
            \/ \E role \in {"strand", "bin"} :
                 qc[role] # None /\ qc[role] \notin available_columns

\* validate_query_columns: filters_to_check of one entry.
filters_to_check(entry) ==
  IF entry.kind = "group" THEN entry.filters ELSE <<entry>>

\* validate_query_columns over the view-filters vfs: the FilterError raised
\* ("unknown_filter", "missing_column") or None.
RECURSIVE validate_filters(_, _, _)
validate_filters(catalog, vfs, available_columns) ==
  IF vfs = <<>> THEN None
  ELSE LET found == get_filter_definition(catalog, Head(vfs))
       IN IF found = <<>> THEN "unknown_filter"
          ELSE IF query_columns_missing(found[1], available_columns)
            THEN "missing_column"
            ELSE validate_filters(catalog, Tail(vfs), available_columns)

RECURSIVE validate_entries(_, _, _)
validate_entries(catalog, entries, available_columns) ==
  IF entries = <<>> THEN None
  ELSE LET e == validate_filters(catalog, filters_to_check(Head(entries)),
                                 available_columns)
       IN IF e # None THEN e
          ELSE validate_entries(catalog, Tail(entries), available_columns)

validate_query_columns(catalog, view, dataset) ==
  IF dataset.columns = <<>> THEN None
  ELSE validate_entries(catalog, view.filters,
         {dataset.columns[1][i].name : i \in DOMAIN dataset.columns[1]})

\* str() of a cell of a result row; str(None) for a NULL label.
Str(cell) ==
  CASE cell = NULL -> "None"
    [] cell = 1 -> "1"
    [] cell = 2 -> "2"

\* The rows of SELECT DISTINCT target AS value, filter_labels AS label
\* WHERE target IS NOT NULL.  filter_labels is an SQL expression; the model
\* has it name a column of the file.
distinct_rows(filter, dataset) ==
  {<<dataset.rows[i][target_column(filter)], dataset.rows[i][filter.filter_labels]>> :
     i \in {j \in DOMAIN dataset.rows :
              dataset.rows[j][target_column(filter)] # NULL}}

\* ORDER BY label ASC (NULL labels last): the orders the database may return
\* the rows in; rows of equal label come in any order.
LabelBefore(r1, r2) ==
  IF r1[2] = NULL THEN r2[2] = NULL
  ELSE r2[2] = NULL \/ r1[2] <= r2[2]

ordered_results(rows) ==
  {s \in [1..Cardinality(rows) -> rows] :
     /\ \A i, j \in DOMAIN s : i # j => s[i] # s[j]
     /\ \A i, j \in DOMAIN s : i < j => LabelBefore(s[i], s[j])}

\* The statement fails in the database when it names a column that the
\* parquet file does not have (a filter_labels of None is rendered as the
\* identifier None).
query_fails(filter, dataset) ==
  \/ target_column(filter) \notin Range(dataset.schema)
  \/ filter.filter_labels \notin Range(dataset.schema)

\* filter_values.append({columns[0]: str(r[0]), columns[1]: str(r[1])})
filter_values_of(result) ==
  [i \in DOMAIN result |->
     [value |-> Str(result[i][1]), label |-> Str(result[i][2])]]

\* A copy that takes the label of the filter and leaves the rest unset.
copy_from_filter_label_only(view_filter, filter) ==
  [view_filter EXCEPT !.label = filter.label]

\* ViewFilter.copy_from_filter: every non-None field of the filter that the
\* view-filter defines (id and filter_labels are not fields of ViewFilter).
copy_from_filter(view_filter, filter) ==
  [view_filter EXCEPT
     !.label = IF filter.label # None THEN filter.label ELSE @,
     !.type = IF filter.type # None THEN filter.type ELSE @,
     !.match = IF filter.match # None THEN filter.match ELSE @,
     !.min = IF filter.min # None THEN filter.min ELSE @,
     !.max = IF filter.max # None THEN filter.max ELSE @,
     !.query_columns = IF filter.query_columns.kind # "none"
                         THEN filter.query_columns ELSE @,
     !.regex = IF filter.regex # None THEN filter.regex ELSE @]

\* __init__: the default of the parameter warn_max.
warn_max == 60

\* A warning rule that never warns.
filter_warning_never(size) == None

\* process_filter: the warning logged for a result of `size` rows, or None.
filter_warning(size) ==
  IF size = 0 THEN "no_values"
  ELSE IF size > vp_warn_max THEN "over_warn_max"
  ELSE None

\* _get_column_override: <<override>> or <<>>.
get_column_override(columns, view_id, column_name) ==
  LET view_overrides == DictGet(columns, view_id)
  IN IF column_name \in DOMAIN view_overrides
       THEN <<view_overrides[column_name]>> ELSE <<>>

\* _enrich_view_column
enrich_view_column(columns, view_col, ds_column, view_id) ==
  LET found == get_column_override(columns, view_id, view_col.name)
  IN IF found # <<>>
       THEN LET override == found[1]
            IN [view_col EXCEPT
                  !.label = IF override.label \notin {None, ""}
                              THEN override.label ELSE ds_column.label,
                  !.type = override.type,
                  !.sortable = override.sortable,
                  !.url = override.url,
                  !.delimiter = override.delimiter,
                  !.hidden = override.hidden]
       ELSE [view_col EXCEPT
               !.label = ds_column.label,
               !.type = ds_column.type,
               !.sortable = ds_column.sortable,
               !.url = ds_column.url,
               !.delimiter = ds_column.delimiter,
               !.hidden = ds_column.hidden]

\* ds_col_lookup.get(name): <<column>> or <<>>; a later column of the same
\* name replaces an earlier one in the lookup.
ds_col_lookup(dataset_columns, name) ==
  LET idx == {i \in DOMAIN dataset_columns : dataset_columns[i].name = name}
  IN IF idx = {} THEN <<>>
     ELSE <<dataset_columns[CHOOSE i \in idx : \A j \in idx : j <= i]>>

\* populate_additional_columns: the loop over the declared columns.
rank_declared(columns, view, dataset_columns) ==
  [i \in DOMAIN view.columns |->
     LET column == [view.columns[i] EXCEPT !.rank = i]
         ds_col == ds_col_lookup(dataset_columns, column.name)
     IN IF ds_col # <<>>
          THEN enrich_view_column(columns, column, ds_col[1], view.id)
          ELSE column]

\* An append loop that leaves out the dataset columns marked hidden.
RECURSIVE append_remaining_visible_only(_, _, _, _, _, _)
append_remaining_visible_only(columns, view_id, dataset_columns, seen, i, acc) ==
  IF i > Len(dataset_columns) THEN acc
  ELSE LET ds_column == dataset_columns[i]
       IN IF ds_column.name \notin seen /\ ~ds_column.hidden
            THEN append_remaining_visible_only(columns, view_id,
                   dataset_columns, seen, i + 1,
                   Append(acc,
                     enrich_view_column(columns,
                       [ViewColumn(ds_column.name) EXCEPT !.rank = Len(acc) + 1],
                       ds_column, view_id)))
            ELSE append_remaining_visible_only(columns, view_id,
                   dataset_columns, seen, i + 1, acc)

\* populate_additional_columns: the loop over the remaining dataset columns,
\* from dataset column i on; acc is view.columns so far.
RECURSIVE append_remaining(_, _, _, _, _, _)
append_remaining(columns, view_id, dataset_columns, seen, i, acc) ==
  IF i > Len(dataset_columns) THEN acc
  ELSE LET ds_column == dataset_columns[i]
       IN IF ds_column.name # None /\ ds_column.name \notin seen
            THEN append_remaining(columns, view_id, dataset_columns, seen, i + 1,
                   Append(acc,
                     enrich_view_column(columns,
                       [ViewColumn(ds_column.name) EXCEPT !.rank = Len(acc) + 1],
                       ds_column, view_id)))
            ELSE append_remaining(columns, view_id, dataset_columns, seen,
                                  i + 1, acc)

\* An enrichment that records no column as seen before it appends.
populate_additional_columns_unseen(columns, view, dataset) ==
  IF dataset.columns = <<>> THEN view
  ELSE LET dataset_columns == dataset.columns[1]
           declared == rank_declared(columns, view, dataset_columns)
       IN [view EXCEPT !.columns =
             IF view.include_remaining_columns
               THEN append_remaining(columns, view.id, dataset_columns, {},
                                     1, declared)
               ELSE declared]

\* populate_additional_columns: the view afterwards.
populate_additional_columns(columns, view, dataset) ==
  IF dataset.columns = <<>> THEN view
  ELSE LET dataset_columns == dataset.columns[1]
           declared == rank_declared(columns, view, dataset_columns)
           seen == {view.columns[i].name : i \in DOMAIN view.columns}
       IN [view EXCEPT !.columns =
             IF view.include_remaining_columns
               THEN append_remaining(columns, view.id, dataset_columns, seen,
                                     1, declared)
               ELSE declared]

ViewsInit ==
  /\ vp_warn_max = warn_max
  /\ vp_filters \in FilterCatalogs
  /\ vp_columns \in ResolverColumnsChoices
  /\ vp_datasets = ProcessedDatasets(<<D1, D2>>, vp_columns)
  /\ vp_nviews \in 0..MaxViews
  /\ vp_pc = "views"
  /\ vp_vi = 1
  /\ vp_view = <<>>
  /\ vp_groups = <<>>
  /\ vp_gi = 1
  /\ vp_fi = 1
  /\ vp_queries = <<>>
  /\ vp_warnings = <<>>
  /\ vp_written = <<>>
  /\ vp_err = None

\* __init__ with a warn_max of the caller's choice, the default among them.
WarnMaxChoices == {1, 3, warn_max}

ViewsInitWarnMax ==
  /\ vp_warn_max \in WarnMaxChoices
  /\ vp_filters \in {<<SelectListA>>, <<SelectListA, LocationB>>}
  /\ vp_columns = EmptyDict
  /\ vp_datasets = ProcessedDatasets(<<D1, D2>>, vp_columns)
  /\ vp_nviews \in 0..MaxViews
  /\ vp_pc = "views"
  /\ vp_vi = 1
  /\ vp_view = <<>>
  /\ vp_groups = <<>>
  /\ vp_gi = 1
  /\ vp_fi = 1
  /\ vp_queries = <<>>
  /\ vp_warnings = <<>>
  /\ vp_written = <<>>
  /\ vp_err = None

\* run: the head of the loop body: get_dataset, validate_query_columns and
\* normalise_to_groups for the next view.
BeginView ==
  /\ UNCHANGED <<vcVars, dpVars, dbVars, etlVars, enVars, rrVars>>
  /\ vp_pc = "views"
  /\ vp_vi <= vp_nviews
  /\ \E view \in ResolverViewChoices(vp_vi) :
       LET found == get_dataset(vp_datasets, view.source)
           invalid == IF found = <<>> THEN "no_dataset"
                      ELSE validate_query_columns(vp_filters, view, found[1])
       IN IF invalid # None
            THEN /\ vp_view' = <<view>>
                 /\ vp_pc' = "error"
                 /\ vp_err' = <<"FilterError", invalid>>
                 /\ UNCHANGED <<vp_groups, vp_gi>>
            ELSE /\ vp_view' = <<view>>
                 /\ vp_groups' = normalise_to_groups(view.filters)
                 /\ vp_gi' = 1
                 /\ vp_pc' = "groups"
                 /\ UNCHANGED vp_err
  /\ UNCHANGED <<vp_warn_max, vp_filters, vp_datasets, vp_columns, vp_nviews, vp_vi, vp_fi,
                 vp_queries, vp_warnings, vp_written>>

\* run: group.rank = group_rank, before the group's filters.
BeginGroup ==
  /\ UNCHANGED <<vcVars, dpVars, dbVars, etlVars, enVars, rrVars>>
  /\ vp_pc = "groups"
  /\ vp_gi <= Len(vp_groups)
  /\ vp_groups' = [vp_groups EXCEPT ![vp_gi].rank = vp_gi]
  /\ vp_fi' = 1
  /\ vp_pc' = "filters"
  /\ UNCHANGED <<vp_warn_max, vp_filters, vp_datasets, vp_columns, vp_nviews, vp_vi, vp_view,
                 vp_gi, vp_queries, vp_warnings, vp_written, vp_err>>

\* run: process_filter for the next view-filter of the group, then its rank.
ProcessFilter ==
  /\ UNCHANGED <<vcVars, dpVars, dbVars, etlVars, enVars, rrVars>>
  /\ vp_pc = "filters"
  /\ vp_fi <= Len(vp_groups[vp_gi].filters)
  /\ LET view == vp_view[1]
         dataset == get_dataset(vp_datasets, view.source)[1]
         view_filter == vp_groups[vp_gi].filters[vp_fi]
         found == get_filter_definition(vp_filters, view_filter)
         query == [view |-> view.id, filter |-> view_filter.filter_id]
     IN IF found = <<>>
          THEN /\ vp_pc' = "error"
               /\ vp_err' = <<"FilterError", "unknown_filter">>
               /\ UNCHANGED <<vp_groups, vp_fi, vp_queries, vp_warnings>>
          ELSE IF found[1].type # "select_list"
            THEN /\ vp_groups' =
                      [vp_groups EXCEPT ![vp_gi].filters[vp_fi] =
                         [copy_from_filter(view_filter, found[1])
                            EXCEPT !.rank = vp_fi]]
                 /\ vp_fi' = vp_fi + 1
                 /\ UNCHANGED <<vp_pc, vp_err, vp_queries, vp_warnings>>
          ELSE IF query_fails(found[1], dataset)
            THEN /\ vp_queries' = Append(vp_queries, query)
                 /\ vp_pc' = "error"
                 /\ vp_err' = <<"duckdb.Error", "no_column">>
                 /\ UNCHANGED <<vp_groups, vp_fi, vp_warnings>>
            ELSE \E result \in ordered_results(distinct_rows(found[1], dataset)) :
                   /\ vp_queries' = Append(vp_queries, query)
                   /\ vp_warnings' =
                        IF filter_warning(Len(result)) = None THEN vp_warnings
                        ELSE Append(vp_warnings,
                               [query EXCEPT !.view = view.source]
                                 @@ [kind |-> filter_warning(Len(result))])
                   /\ vp_groups' =
                        [vp_groups EXCEPT ![vp_gi].filters[vp_fi] =
                           [copy_from_filter(
                              [view_filter EXCEPT
                                 !.filter_values = <<filter_values_of(result)>>],
                              found[1])
                              EXCEPT !.rank = vp_fi]]
                   /\ vp_fi' = vp_fi + 1
                   /\ UNCHANGED <<vp_pc, vp_err>>
  /\ UNCHANGED <<vp_warn_max, vp_filters, vp_datasets, vp_columns, vp_nviews, vp_vi, vp_view,
                 vp_gi, vp_written>>

\* A group that keeps the label it was given.
adopt_group_label_never(group) == group

\* run: if len(group.filters) == 1 and group.filters[0].label:
\*          group.group_label = group.filters[0].label
adopt_group_label(group) ==
  IF Len(group.filters) = 1 /\ group.filters[1].label \notin {None, ""}
    THEN [group EXCEPT !.group_label = group.filters[1].label]
    ELSE group

\* run: after the group's filters, a group of one filter with a non-empty
\* label takes that label.
EndGroup ==
  /\ UNCHANGED <<vcVars, dpVars, dbVars, etlVars, enVars, rrVars>>
  /\ vp_pc = "filters"
  /\ vp_fi > Len(vp_groups[vp_gi].filters)
  /\ vp_groups' = [vp_groups EXCEPT ![vp_gi] = adopt_group_label(@)]
  /\ vp_gi' = vp_gi + 1
  /\ vp_pc' = "groups"
  /\ UNCHANGED <<vp_warn_max, vp_filters, vp_datasets, vp_columns, vp_nviews, vp_vi, vp_view,
                 vp_fi, vp_queries, vp_warnings, vp_written, vp_err>>

\* The view as run() hands it to write_view: view.filters replaced by the
\* normalised groups, then populate_additional_columns.
resolved_view ==
  populate_additional_columns(vp_columns,
    [vp_view[1] EXCEPT !.filters = vp_groups],
    get_dataset(vp_datasets, vp_view[1].source)[1])

\* run: the tail of the loop body: view.filters = normalised_groups,
\* populate_additional_columns and write_view.
PopulateAndWriteView ==
  /\ UNCHANGED <<vcVars, dpVars, dbVars, etlVars, enVars, rrVars>>
  /\ vp_pc = "groups"
  /\ vp_gi > Len(vp_groups)
  /\ vp_written' = Append(vp_written, resolved_view.id)
  /\ vp_view' = <<>>
  /\ vp_groups' = <<>>
  /\ vp_vi' = vp_vi + 1
  /\ vp_pc' = "views"
  /\ UNCHANGED <<vp_warn_max, vp_filters, vp_datasets, vp_columns, vp_nviews, vp_gi, vp_fi,
                 vp_queries, vp_warnings, vp_err>>

\* run: the loop over self.views is over.
ViewsDone ==
  /\ UNCHANGED <<vcVars, dpVars, dbVars, etlVars, enVars, rrVars>>
  /\ vp_pc = "views"
  /\ vp_vi > vp_nviews
  /\ vp_pc' = "done"
  /\ UNCHANGED <<vp_warn_max, vp_filters, vp_datasets, vp_columns, vp_nviews, vp_vi, vp_view,
                 vp_groups, vp_gi, vp_fi, vp_queries, vp_warnings, vp_written,
                 vp_err>>

ViewsNext ==
  \/ BeginView
  \/ BeginGroup
  \/ ProcessFilter
  \/ EndGroup
  \/ PopulateAndWriteView
  \/ ViewsDone

\* ========================================================================
\* etl/main.py: run_etl
\* ========================================================================

\* A dataset declaration of the data document: its name, the suffix of its
\* path and whether the path exists.
DataDecl(name, suffix, exists) ==
  [name |-> name, suffix |-> suffix, exists |-> exists]

DataChoices ==
  {<<>>,
   <<DataDecl("d1", ".parquet", TRUE)>>,
   <<DataDecl("d1", ".parquet", TRUE), DataDecl("d2", ".csv", FALSE)>>,
   <<DataDecl("d1", ".csv", TRUE), DataDecl("d2", ".txt", TRUE)>>}

\* The documents are ones the JSON schemas accept and the schema files are
\* in place; the release directory is absent or left by an earlier run.
EtlInit ==
  /\ etl_pc = "stage0"
  /\ etl_force \in BOOLEAN
  /\ etl_release \in {"absent", "old"}
  /\ etl_removed = FALSE
  /\ etl_files = {}
  /\ etl_data \in DataChoices
  /\ etl_err = None
  /\ vc_filters \in CatalogChoices
  /\ vc_nviews \in 0..MaxViews
  /\ vc_pc = "idle"
  /\ vc_fi = 1
  /\ vc_vi = 1
  /\ vc_view = <<>>
  /\ vc_ei = 1
  /\ used_filters = EmptyDict
  /\ group_ids = {}
  /\ vc_err = None
  /\ vc_referenced = {}

\* Stage 0: create_release(cli.release, overwrite=cli.force).
CreateRelease ==
  /\ UNCHANGED <<vcVars, dpVars, dbVars, vpVars, enVars, rrVars>>
  /\ etl_pc = "stage0"
  /\ IF etl_release = "old" /\ ~etl_force
       THEN /\ etl_pc' = "error"
            /\ etl_err' = "ValueError"
            /\ UNCHANGED <<etl_release, etl_removed>>
       ELSE /\ etl_removed' = (etl_release = "old")
            /\ etl_release' = "fresh"
            /\ etl_pc' = "stage1"
            /\ UNCHANGED etl_err
  /\ UNCHANGED <<etl_force, etl_files, etl_data>>

\* Stage 1: validate_configs enters validate_config.
ValidateConfigs ==
  /\ UNCHANGED <<dpVars, dbVars, vpVars, enVars, rrVars>>
  /\ etl_pc = "stage1"
  /\ vc_pc = "idle"
  /\ vc_pc' = "filters"
  /\ etl_pc' = "validate_config"
  /\ UNCHANGED <<vc_filters, vc_nviews, vc_fi, vc_vi, vc_view, vc_ei,
                 used_filters, group_ids, vc_err, vc_referenced>>
  /\ UNCHANGED <<etl_force, etl_release, etl_removed, etl_files, etl_data,
                 etl_err>>

\* validate_config has returned or raised ConfigError.
ConfigValidated ==
  /\ UNCHANGED <<vcVars, dpVars, dbVars, vpVars, enVars, rrVars>>
  /\ etl_pc = "validate_config"
  /\ vc_pc \in {"ok", "error"}
  /\ IF vc_pc = "error"
       THEN etl_pc' = "error" /\ etl_err' = "ConfigError"
       ELSE etl_pc' = "validate_dataset" /\ UNCHANGED etl_err
  /\ UNCHANGED <<etl_force, etl_release, etl_removed, etl_files, etl_data>>

\* validate_dataset: ConfigError for a declared path that does not exist.
ValidateDataset ==
  /\ UNCHANGED <<vcVars, dpVars, dbVars, vpVars, enVars, rrVars>>
  /\ etl_pc = "validate_dataset"
  /\ IF \E i \in DOMAIN etl_data : ~etl_data[i].exists
       THEN etl_pc' = "error" /\ etl_err' = "ConfigError"
       ELSE etl_pc' = "stage2" /\ UNCHANGED etl_err
  /\ UNCHANGED <<etl_force, etl_release, etl_removed, etl_files, etl_data>>

\* Transform.run: the parquet files written, up to the first dataset whose
\* path is neither .parquet nor .csv.
RECURSIVE transform_outputs(_)
transform_outputs(datasets) ==
  IF datasets = <<>> \/ Head(datasets).suffix \notin {".parquet", ".csv"}
    THEN {}
    ELSE {<<Head(datasets).name, ".parquet">>}
           \cup transform_outputs(Tail(datasets))

\* Stage 2: Transform(datasets, release_path).run().
RunTransform ==
  /\ UNCHANGED <<vcVars, dpVars, dbVars, vpVars, enVars, rrVars>>
  /\ etl_pc = "stage2"
  /\ etl_files' = etl_files \cup transform_outputs(etl_data)
  /\ IF \E i \in DOMAIN etl_data : etl_data[i].suffix \notin {".parquet", ".csv"}
       THEN etl_pc' = "error" /\ etl_err' = "ValueError"
       ELSE etl_pc' = "stage3" /\ UNCHANGED etl_err
  /\ UNCHANGED <<etl_force, etl_release, etl_removed, etl_data>>

\* Stage 3: DatasetsProcessor(datasets=, views=, columns=, release_path=):
\* DatasetsProcessor.__init__ has no parameter `views`, so the call raises
\* TypeError and stages 4 to 6 are never entered.
CreateDatasetsProcessor ==
  /\ UNCHANGED <<vcVars, dpVars, dbVars, vpVars, enVars, rrVars>>
  /\ etl_pc = "stage3"
  /\ etl_pc' = "error"
  /\ etl_err' = "TypeError"
  /\ UNCHANGED <<etl_force, etl_release, etl_removed, etl_files, etl_data>>

EtlNext ==
  \/ CreateRelease
  \/ ValidateConfigs
  \/ CheckFilter
  \/ FiltersChecked
  \/ TakeView
  \/ WalkEntry
  \/ ViewWalked
  \/ ViewsWalked
  \/ CheckUnused
  \/ ConfigValidated
  \/ ValidateDataset
  \/ RunTransform
  \/ CreateDatasetsProcessor

ViewsIdle ==
  /\ vp_warn_max = warn_max
  /\ vp_filters = <<>>
  /\ vp_datasets = <<>>
  /\ vp_columns = EmptyDict
  /\ vp_nviews = 0
  /\ vp_pc = "idle"
  /\ vp_vi = 1
  /\ vp_view = <<>>
  /\ vp_groups = <<>>
  /\ vp_gi = 1
  /\ vp_fi = 1
  /\ vp_queries = <<>>
  /\ vp_warnings = <<>>
  /\ vp_written = <<>>
  /\ vp_err = None

\* ========================================================================
\* etl/views.py: populate_additional_columns on one view
\* ========================================================================

\* config["columns"] for the enrichment of view v1: overrides keyed by the
\* view id, and overrides keyed by the dataset name d1, which
\* DatasetsProcessor.run has applied to the dataset's columns.
EnrichColumnsChoices ==
  {EmptyDict}
    \cup {("v1" :> ("chrom" :> o)) : o \in OverrideChoices}
    \cup {("d1" :> ("chrom" :> o)) : o \in OverrideChoices}
    \cup {("d1" :> ("chrom" :> o1)) @@ ("v1" :> ("chrom" :> o2)) :
            o1, o2 \in OverrideChoices}
    \cup {("d1" :> ("a" :> o)) @@ ("v1" :> ("a" :> o)) : o \in OverrideChoices}

\* Names a view declares as columns; "zz" is a column of no dataset.
DeclaredColumnNames == {"chrom", "a", "zz"}

\* Declared columns of one view.
MaxColumns == 2

DeclaredColumnLists ==
  {[i \in DOMAIN names |-> ViewColumn(names[i])] :
     names \in SeqsUpTo(DeclaredColumnNames, MaxColumns)}

EnrichInit ==
  /\ en_columns \in EnrichColumnsChoices
  /\ \E i \in {1, 2} :
       en_dataset = <<ProcessedDatasets(<<D1, D2>>, en_columns)[i]>>
  /\ en_declared \in
       {<<View("v1", en_dataset[1].name, inc, <<>>, cols)>> :
          inc \in BOOLEAN, cols \in DeclaredColumnLists}
  /\ en_view = en_declared
  /\ en_once = <<>>
  /\ en_pc = "declared"

\* self.populate_additional_columns(view)
PopulateColumns ==
  /\ UNCHANGED <<vcVars, dpVars, dbVars, vpVars, etlVars, rrVars>>
  /\ en_pc = "declared"
  /\ en_view' = <<populate_additional_columns(en_columns, en_view[1],
                                              en_dataset[1])>>
  /\ en_once' = en_view'
  /\ en_pc' = "enriched"
  /\ UNCHANGED <<en_columns, en_dataset, en_declared>>

\* self.populate_additional_columns(view), on the view it has enriched.
PopulateColumnsAgain ==
  /\ UNCHANGED <<vcVars, dpVars, dbVars, vpVars, etlVars, rrVars>>
  /\ en_pc = "enriched"
  /\ en_view' = <<populate_additional_columns(en_columns, en_view[1],
                                              en_dataset[1])>>
  /\ en_pc' = "again"
  /\ UNCHANGED <<en_columns, en_dataset, en_declared, en_once>>

EnrichNext ==
  \/ PopulateColumns
  \/ PopulateColumnsAgain

\* ========================================================================
\* etl/database.py: two DatabaseConfig instances, one after the other
\* ========================================================================

\* The views handed to both instances.
RerunViewChoices ==
  {view \in WriterViewChoices :
     /\ view.dataset \in {"d1", NoAttr}
     /\ view.columns \in {<<>>, <<"chrom", "a">>}
     /\ view.filters \in
          {<<>>, <<WriterFilter("a", "select_list", <<<<"1", "2">>>>, "False")>>,
           <<WriterFilter("a", "select_list", <<<<"1">>>>, NoAttr)>>}}

RerunInit ==
  /\ rr_datasets \in WriterDatasetLists
  /\ rr_views \in SeqsUpTo(RerunViewChoices, MaxViews)
  /\ rr_first = <<>>
  /\ rr_pc = "construct"

\* A constructor that keeps the id counters of the instance before it.
NewWriterSharedIds ==
  /\ UNCHANGED <<vcVars, dpVars, vpVars, etlVars, enVars>>
  /\ rr_pc = "construct"
  /\ db_datasets' = rr_datasets
  /\ db_nviews' = Len(rr_views)
  /\ dataset_lookup' = EmptyDict
  /\ column_lookup' = EmptyDict
  /\ UNCHANGED ids
  /\ db_rows' = <<>>
  /\ db_schema_loads' = 0
  /\ db_err' = None
  /\ db_di' = 1
  /\ db_vi' = 1
  /\ db_pc' = "schema"
  /\ rr_pc' = "running"
  /\ UNCHANGED <<rr_datasets, rr_views, rr_first>>

\* DatabaseConfig.__init__ on a fresh target: the lists are stored, the
\* lookups and self.ids start empty, the database holds no row.
NewWriter ==
  /\ UNCHANGED <<vcVars, dpVars, vpVars, etlVars, enVars>>
  /\ rr_pc = "construct"
  /\ db_datasets' = rr_datasets
  /\ db_nviews' = Len(rr_views)
  /\ dataset_lookup' = EmptyDict
  /\ column_lookup' = EmptyDict
  /\ ids' = EmptyDict
  /\ db_rows' = <<>>
  /\ db_schema_loads' = 0
  /\ db_err' = None
  /\ db_di' = 1
  /\ db_vi' = 1
  /\ db_pc' = "schema"
  /\ rr_pc' = "running"
  /\ UNCHANGED <<rr_datasets, rr_views, rr_first>>

\* for view in self.views: self.write_view(view), on the views handed in.
WriteListedView ==
  /\ UNCHANGED <<vcVars, dpVars, vpVars, etlVars, enVars, rrVars>>
  /\ rr_pc = "running"
  /\ db_pc = "views"
  /\ db_vi <= db_nviews
  /\ LET st == write_view(rr_views[db_vi], db_rows, ids, dataset_lookup,
                          column_lookup)
     IN /\ db_rows' = st.rows
        /\ ids' = st.ids
        /\ db_err' = st.err
        /\ IF st.err # None
             THEN db_pc' = "error" /\ UNCHANGED db_vi
             ELSE db_vi' = db_vi + 1 /\ UNCHANGED db_pc
  /\ UNCHANGED <<db_datasets, db_nviews, db_di, db_schema_loads,
                 dataset_lookup, column_lookup>>

\* run() returned or raised: the first instance's outcome is kept for the
\* comparison and the second instance is constructed next.
RunReturned ==
  /\ UNCHANGED <<vcVars, dpVars, dbVars, vpVars, etlVars, enVars>>
  /\ rr_pc = "running"
  /\ db_pc \in {"done", "error"}
  /\ IF rr_first = <<>>
       THEN /\ rr_first' = <<[rows |-> db_rows, err |-> db_err]>>
            /\ rr_pc' = "construct"
       ELSE /\ rr_pc' = "done"
            /\ UNCHANGED rr_first
  /\ UNCHANGED <<rr_datasets, rr_views>>

RerunNext ==
  \/ NewWriter
  \/ LoadSchema
  \/ WriteDataset
  \/ DatasetsWritten
  \/ WriteListedView
  \/ ViewsWritten
  \/ GenerateRelease
  \/ RunReturned

RerunIdle ==
  /\ rr_datasets = <<>>
  /\ rr_views = <<>>
  /\ rr_first = <<>>
  /\ rr_pc = "idle"

EnrichIdle ==
  /\ en_columns = EmptyDict
  /\ en_dataset = <<>>
  /\ en_declared = <<>>
  /\ en_view = <<>>
  /\ en_once = <<>>
  /\ en_pc = "idle"

EtlIdle ==
  /\ etl_pc = "idle"
  /\ etl_force = FALSE
  /\ etl_release = "absent"
  /\ etl_removed = FALSE
  /\ etl_files = {}
  /\ etl_data = <<>>
  /\ etl_err = None

\* validate_config on its own.
InitConfig == ConfigInit /\ DatasetsIdle /\ WriterIdle /\ ViewsIdle /\ EtlIdle /\ EnrichIdle
  /\ RerunIdle

SpecConfig == InitConfig /\ [][ConfigNext]_vars

\* DatasetsProcessor.run on its own.
InitDatasets == DatasetsInit /\ ConfigIdle /\ WriterIdle /\ ViewsIdle /\ EtlIdle /\ EnrichIdle
  /\ RerunIdle

SpecDatasets == InitDatasets /\ [][DatasetsNext]_vars

\* DatabaseConfig.run on its own.
InitWriter == WriterInit /\ ConfigIdle /\ DatasetsIdle /\ ViewsIdle /\ EtlIdle /\ EnrichIdle
  /\ RerunIdle

SpecWriter == InitWriter /\ [][WriterNext]_vars

\* ViewsProcessor.run on its own.
InitViews == ViewsInit /\ ConfigIdle /\ DatasetsIdle /\ WriterIdle /\ EtlIdle /\ EnrichIdle
  /\ RerunIdle

SpecViews == InitViews /\ [][ViewsNext]_vars

\* ViewsProcessor.run with a warn_max of the caller's choice.
InitViewsWarnMax ==
  ViewsInitWarnMax /\ ConfigIdle /\ DatasetsIdle /\ WriterIdle /\ EtlIdle
    /\ EnrichIdle /\ RerunIdle

SpecViewsWarnMax == InitViewsWarnMax /\ [][ViewsNext]_vars

\* run_etl.
InitEtl == EtlInit /\ DatasetsIdle /\ WriterIdle /\ ViewsIdle /\ EnrichIdle /\ RerunIdle

SpecEtl == InitEtl /\ [][EtlNext]_vars

\* populate_additional_columns on its own.
InitEnrich ==
  EnrichInit /\ ConfigIdle /\ DatasetsIdle /\ WriterIdle /\ ViewsIdle /\ EtlIdle
    /\ RerunIdle

SpecEnrich == InitEnrich /\ [][EnrichNext]_vars

\* Two DatabaseConfig runs on the same input.
InitRerun ==
  RerunInit /\ ConfigIdle /\ DatasetsIdle /\ WriterIdle /\ ViewsIdle /\ EtlIdle
    /\ EnrichIdle

SpecRerun == InitRerun /\ [][RerunNext]_vars

\* ------------------------------------------------------------------------
\* Properties of validate_config.

CatalogIds == {vc_filters[i].id : i \in DOMAIN vc_filters}

\* The entries of the current view the inner loop has gone past.
WalkedEntries == SubSeq(vc_view, 1, vc_ei - 1)

NormalisedGroupIds(view_filters) ==
  LET groups == normalise_to_groups(view_filters)
  IN [i \in DOMAIN groups |-> groups[i].group_id]

\* C1: in a config that validate_config accepted, the groups a view's filter
\* entries normalise to (explicit groups and groups auto-wrapped from bare
\* references) have pairwise distinct group_id values.  Stated on the view
\* the validator walked last.
C1_NormalisedGroupIdsDistinct ==
  vc_pc = "ok" => PairwiseDistinct(NormalisedGroupIds(vc_view))

\* C2: validate_config returns without error only if the filter ids the
\* views reference are exactly the catalog ids, and the unused-filter error
\* is raised only once the loop over the views has gone past the last view.
C2_NoFilterUnused ==
  /\ vc_pc = "ok" => vc_referenced = CatalogIds
  /\ (vc_pc \in {"ok", "error"} /\ CatalogIds \ vc_referenced # {})
        => vc_pc = "error"
  /\ vc_err = "unused_filter" => vc_vi > vc_nviews

\* A second view was walked and a catalog filter is still unused.
C2_Witness ==
  /\ vc_err = "unused_filter"
  /\ vc_nviews = 2
  /\ vc_referenced # {}

ExplicitGroupIds(entries) ==
  LET idx == {i \in DOMAIN entries : entries[i].kind = "group"}
  IN [i \in idx |-> entries[i].group_id]

InjectiveFn(f) == \A i, j \in DOMAIN f : i # j => f[i] # f[j]

CatalogClean ==
  /\ \A i \in DOMAIN vc_filters : vc_filters[i].type \in supported_filters
  /\ \A i, j \in DOMAIN vc_filters : i # j => vc_filters[i].id # vc_filters[j].id

WalkedEntriesClean ==
  /\ InjectiveFn(ExplicitGroupIds(WalkedEntries))
  /\ \A i \in DOMAIN WalkedEntries : EntryFilterIds(WalkedEntries[i]) \subseteq CatalogIds

\* C3: validate_config never gets past a defect without raising: once the
\* catalog loop is done every type is supported and every id unique; every
\* entry the view loop has gone past names only catalog filters and no two
\* explicit groups of the view share a group_id; and it returns only when,
\* in addition, no filter is unused.
C3_DefectsRaise ==
  /\ vc_pc \in {"views", "entries", "unused", "ok"}
        => CatalogClean /\ WalkedEntriesClean
  /\ vc_pc = "ok" => unused_filters(used_filters) = {} /\ vc_referenced = CatalogIds
  /\ vc_pc = "error" =>
        vc_err \in {"unknown_type", "duplicate_filter", "duplicate_group",
                    "unknown_filter", "unused_filter"}

\* The second group of a view repeats the first group's id, in the second view.
C3_Witness ==
  /\ vc_err = "duplicate_group"
  /\ vc_vi = 2

\* ------------------------------------------------------------------------
\* Properties of DatasetsProcessor.

\* Some view's overrides (those keyed by its id) name a column that the
\* file of the view's source dataset does not have.
DanglingViewOverride ==
  \E i \in DOMAIN dp_views, j \in DOMAIN dp_datasets :
    /\ dp_views[i].source = dp_datasets[j].name
    /\ dp_views[i].id \in DOMAIN dp_columns
    /\ DOMAIN dp_columns[dp_views[i].id] \ Range(dp_datasets[j].schema) # {}

\* C10: when the overrides keyed by a view's id name a column absent from
\* the schema of the view's source dataset, the run ends in
\* DatasetsProcessorError, whether or not the view id equals the dataset name.
C10_DanglingOverrideFails ==
  (dp_pc \in {"done", "error"} /\ DanglingViewOverride)
    => (dp_pc = "error" /\ dp_err = "DatasetsProcessorError")


\* ------------------------------------------------------------------------
\* Properties of DatabaseConfig.run
\* ------------------------------------------------------------------------

\* Row i of the run references, through foreign key `fk`, a row of `table`
\* emitted before it whose surrogate id `pk` has that value.
ReferencesEarlier(i, fk, table, pk) ==
  /\ fk \in DOMAIN db_rows[i].cols
  /\ \E j \in 1..(i - 1) :
       /\ db_rows[j].table = table
       /\ db_rows[j].cols[pk] = db_rows[i].cols[fk]

RowCount(table) == Cardinality({i \in DOMAIN db_rows : db_rows[i].table = table})

\* C5: the schema is loaded once and before any insert; a view row comes
\* before its group rows, a group row before its view-filter rows, a
\* select_list view-filter row before its value rows and the view row
\* before its column rows; a run that has ended has emitted exactly one
\* release row, as its last row.
C5_DependencyOrderAndReleaseMarker ==
  /\ db_schema_loads <= 1
  /\ db_rows # <<>> => db_schema_loads = 1
  /\ \A i \in DOMAIN db_rows :
       /\ db_rows[i].table = "view_filter_group"
            => ReferencesEarlier(i, "view_id", "view", "view_id")
       /\ db_rows[i].table = "view_filter"
            => ReferencesEarlier(i, "view_filter_group_id",
                                 "view_filter_group", "view_filter_group_id")
       /\ db_rows[i].table = "view_filter_value"
            => ReferencesEarlier(i, "view_filter_id", "view_filter",
                                 "view_filter_id")
       /\ db_rows[i].table = "view_column"
            => ReferencesEarlier(i, "view_id", "view", "view_id")
       /\ db_rows[i].table = "release" => i = Len(db_rows)
  /\ RowCount("release") <= 1
  /\ db_pc \in {"done", "error"} => RowCount("release") = 1

\* ------------------------------------------------------------------------
\* Properties of ViewsProcessor.run
\* ------------------------------------------------------------------------

\* The view-filters of a view, bare or member of a group.
ViewFiltersOf(view) ==
  UNION {IF view.filters[i].kind = "group"
           THEN Range(view.filters[i].filters)
           ELSE {view.filters[i]} : i \in DOMAIN view.filters}

\* The columns a catalog filter's query_columns name.
DeclaredTargets(filter) ==
  LET qc == filter.query_columns
  IN CASE qc.kind = "none" -> {}
       [] qc.kind = "single" -> {qc.column}
       [] qc.kind = "location" ->
            {qc.region, qc.start, qc["end"]} \cup ({qc.strand, qc.bin} \ {None})

\* The view has a view-filter whose catalog filter names, in its
\* query_columns, a column that the parquet file of the view's source does
\* not have.
HasDanglingQueryColumn(view) ==
  \E i \in DOMAIN vp_datasets :
    /\ vp_datasets[i].name = view.source
    /\ \E vf \in ViewFiltersOf(view) : \E f \in Range(vp_filters) :
         /\ f.id = vf.filter_id
         /\ ~(DeclaredTargets(f) \subseteq Range(vp_datasets[i].schema))

\* C7: when the run ends in a FilterError for an undeclared dataset or an
\* unknown filter id, no view document has been written for any view of
\* the run.
C7_FilterErrorWritesNothing ==
  (vp_pc = "error"
     /\ vp_err \in {<<"FilterError", "no_dataset">>,
                    <<"FilterError", "unknown_filter">>})
    => vp_written = <<>>

\* C8: a view with a filter whose query column is not in the view's source
\* makes the run fail with a FilterError, and no distinct-value query has
\* been issued up to then, for that view or for an earlier one.
C8_NoQueryBeforeColumnError ==
  (vp_view # <<>> /\ HasDanglingQueryColumn(vp_view[1]))
    => /\ vp_pc = "error"
       /\ vp_err[1] = "FilterError"
       /\ vp_queries = <<>>

\* C9: a view with a view-filter (bare or in a group) whose catalog filter
\* names in query_columns a column missing from the view's source (single
\* column; region, start, end; strand and bin when present) is rejected with
\* a FilterError when run() reaches it: it is never resolved or written.
C9_DanglingQueryColumnRejected ==
  (vp_view # <<>> /\ HasDanglingQueryColumn(vp_view[1]))
    => (vp_pc = "error" /\ vp_err[1] = "FilterError")

\* C9 witness: a view of d1 rejected for a group member whose location
\* filter names a strand column d1 does not have.
C9_Witness ==
  /\ vp_pc = "error"
  /\ vp_err = <<"FilterError", "missing_column">>
  /\ vp_view[1].source = "d1"
  /\ \E f \in Range(vp_filters) :
       /\ f.query_columns.kind = "location"
       /\ f.query_columns.strand = "zz"
       /\ \E i \in DOMAIN vp_view[1].filters :
            /\ vp_view[1].filters[i].kind = "group"
            /\ \E vf \in Range(vp_view[1].filters[i].filters) :
                 vf.filter_id = f.id

\* ------------------------------------------------------------------------
\* Properties of run_etl
\* ------------------------------------------------------------------------

\* C6: when run_etl ends in a ConfigError, nothing has been created, written
\* or removed on the target: the release directory has not been created, an
\* existing one has not been removed, and no file has been written.
C6_ConfigErrorBeforePersistence ==
  (etl_pc = "error" /\ etl_err = "ConfigError")
    => /\ etl_release # "fresh"
       /\ ~etl_removed
       /\ etl_files = {}

\* ------------------------------------------------------------------------
\* Properties of the resolved view
\* ------------------------------------------------------------------------

\* run() has processed every group of the view it is at: the next step
\* hands resolved_view to write_view.
ViewResolved == vp_pc = "groups" /\ vp_gi > Len(vp_groups)

\* The id an entry gives its group: its group_id, or its filter_id when bare.
DeclaredGroupId(entry) ==
  IF entry.kind = "group" THEN entry.group_id ELSE entry.filter_id

\* The filter ids of an entry's members, in declared order.
DeclaredMembers(entry) ==
  IF entry.kind = "group"
    THEN [j \in DOMAIN entry.filters |-> entry.filters[j].filter_id]
    ELSE <<entry.filter_id>>

\* C11: a resolved view with n filter entries has n groups, group i being
\* the i-th declared entry with rank i; the members of each group are its
\* declared members in declared order, member j with rank j.
C11_RanksFollowDeclaration ==
  ViewResolved =>
    LET declared == vp_view[1].filters
        groups == resolved_view.filters
    IN /\ Len(groups) = Len(declared)
       /\ \A i \in DOMAIN groups :
            /\ groups[i].rank = i
            /\ groups[i].group_id = DeclaredGroupId(declared[i])
            /\ Len(groups[i].filters) = Len(DeclaredMembers(declared[i]))
            /\ \A j \in DOMAIN groups[i].filters :
                 /\ groups[i].filters[j].rank = j
                 /\ groups[i].filters[j].filter_id
                      = DeclaredMembers(declared[i])[j]

\* C11 witness: a resolved view of two entries, the second a group of two.
C11_Witness ==
  /\ ViewResolved
  /\ Len(resolved_view.filters) = 2
  /\ Len(resolved_view.filters[2].filters) = 2
  /\ resolved_view.filters[1].group_id # resolved_view.filters[2].group_id

\* Entry i of the view is a bare reference and entry j an explicit group
\* whose only member references the same filter.
BareAndSingleton(declared, i, j) ==
  /\ declared[i].kind = "filter"
  /\ declared[j].kind = "group"
  /\ Len(declared[j].filters) = 1
  /\ declared[j].filters[1].filter_id = declared[i].filter_id

\* Two resolved view-filters agree on every field; their filter_values hold
\* the same entries (the database returns rows of equal label in any order).
SameResolvedFields(f1, f2) ==
  /\ [f1 EXCEPT !.filter_values = <<>>] = [f2 EXCEPT !.filter_values = <<>>]
  /\ Len(f1.filter_values) = Len(f2.filter_values)
  /\ f1.filter_values # <<>>
       => /\ Len(f1.filter_values[1]) = Len(f2.filter_values[1])
          /\ Range(f1.filter_values[1]) = Range(f2.filter_values[1])

\* C12 as stated: a bare reference to a filter and an explicit single-member
\* group of the same filter, with any declared group_label, resolve to the
\* same view-filter fields and the same final group_label.
C12_BareEqualsSingletonGroup ==
  ViewResolved =>
    LET declared == vp_view[1].filters
        groups == resolved_view.filters
    IN \A i, j \in DOMAIN declared :
         BareAndSingleton(declared, i, j)
           => /\ SameResolvedFields(groups[i].filters[1], groups[j].filters[1])
              /\ groups[i].group_label = groups[j].group_label

\* C12 amended: the same, for a filter whose resolved label is non-empty or
\* a group declared with the filter id as its group_label.
C12_BareEqualsSingletonGroupLabelled ==
  ViewResolved =>
    LET declared == vp_view[1].filters
        groups == resolved_view.filters
    IN \A i, j \in DOMAIN declared :
         (/\ BareAndSingleton(declared, i, j)
          /\ \/ groups[i].filters[1].label \notin {None, ""}
             \/ declared[j].group_label = declared[i].filter_id)
           => /\ SameResolvedFields(groups[i].filters[1], groups[j].filters[1])
              /\ groups[i].group_label = groups[j].group_label

\* C12 witness: a resolved view holding both forms of a select_list filter
\* with values and a non-empty label.
C12_Witness ==
  /\ ViewResolved
  /\ \E i, j \in DOMAIN vp_view[1].filters :
       /\ BareAndSingleton(vp_view[1].filters, i, j)
       /\ resolved_view.filters[i].filters[1].label = "A"
       /\ resolved_view.filters[i].filters[1].filter_values # <<>>
       /\ resolved_view.filters[i].filters[1].filter_values[1] # <<>>
       /\ vp_view[1].filters[j].group_label # resolved_view.filters[j].group_label

\* ------------------------------------------------------------------------
\* Properties of the distinct values
\* ------------------------------------------------------------------------

\* The dataset of the view run() is at.
SourceDataset == get_dataset(vp_datasets, vp_view[1].source)[1]

\* The distinct non-null values of a column of the dataset's file.
DistinctNonNull(dataset, column) ==
  {dataset.rows[k][column] : k \in DOMAIN dataset.rows} \ {NULL}

\* The place of a label string in ascending order.
LabelOrder(label) ==
  CASE label = "1" -> 1
    [] label = "2" -> 2
    [] label = "None" -> 3

\* The strings a cell of the model's files is rendered as.
CellStrings == {"1", "2", "None"}

\* The view-filters of the view run() is at that hold filter_values.
WithValues ==
  {vf \in UNION {Range(vp_groups[i].filters) : i \in DOMAIN vp_groups} :
     vf.filter_values # <<>>}

\* C13: the filter_values of a resolved select_list filter have one entry
\* per distinct non-null value of the target column, in ascending order of
\* label, and every value and label is a string.
C13_OneEntryPerDistinctValue ==
  (vp_view # <<>> /\ vp_pc # "error") =>
    \A vf \in WithValues :
      LET filter == get_filter_definition(vp_filters, vf)[1]
          values == vf.filter_values[1]
      IN /\ Len(values)
              = Cardinality(DistinctNonNull(SourceDataset, target_column(filter)))
         /\ \A i, j \in DOMAIN values :
              i < j => LabelOrder(values[i].label) <= LabelOrder(values[j].label)
         /\ \A i \in DOMAIN values :
              values[i].value \in CellStrings /\ values[i].label \in CellStrings

\* ------------------------------------------------------------------------
\* Properties of populate_additional_columns
\* ------------------------------------------------------------------------

\* The dataset-derived columns of the view's source.
DatasetColumns == en_dataset[1].columns[1]

\* The per-view overrides of the view: column name -> Column.
ViewOverrides == DictGet(en_columns, en_declared[1].id)

\* A presentation field as the merge of override and dataset column gives
\* it: the override's value where it supplies one, else the dataset's.
\* sortable and hidden are booleans and always supplied.
MergedField(field, override, ds_column) ==
  IF field \in {"sortable", "hidden"} THEN override[field]
  ELSE IF override[field] # None THEN override[field]
  ELSE ds_column[field]

PresentationFields == {"label", "type", "sortable", "hidden", "url", "delimiter"}

\* C14: after enrichment, every presentation field of a declared column
\* that names a dataset column is the override's value when the view has an
\* override for the column that supplies the field, and the dataset
\* column's value otherwise.
C14_OverrideWinsPerField ==
  en_pc = "enriched" =>
    \A i \in DOMAIN en_declared[1].columns :
      \A k \in DOMAIN DatasetColumns :
        DatasetColumns[k].name = en_declared[1].columns[i].name =>
          LET column == en_once[1].columns[i]
              name == DatasetColumns[k].name
          IN \A field \in PresentationFields :
               column[field] =
                 IF name \in DOMAIN ViewOverrides
                   THEN MergedField(field, ViewOverrides[name], DatasetColumns[k])
                   ELSE DatasetColumns[k][field]

\* The names of a list of columns, in list order.
NamesOf(cols) == [i \in DOMAIN cols |-> cols[i].name]

\* The dataset columns whose names the view does not declare, in dataset
\* order.
RemainingNames ==
  LET declared == Range(NamesOf(en_declared[1].columns))
      NotDeclared(name) == name \notin declared
  IN SelectSeq(NamesOf(DatasetColumns), NotDeclared)

\* C15: after populate_additional_columns the columns carry ranks 1..n in
\* list order, the declared columns come first in declared order, and what
\* follows them is exactly the undeclared dataset columns in dataset order
\* when include_remaining_columns is set, and nothing when it is not.
C15_RanksAndRemainingColumns ==
  en_pc = "enriched" =>
    LET cols == en_once[1].columns
        declared == en_declared[1].columns
    IN /\ \A i \in DOMAIN cols : cols[i].rank = i
       /\ Len(cols) >= Len(declared)
       /\ SubSeq(NamesOf(cols), 1, Len(declared)) = NamesOf(declared)
       /\ SubSeq(NamesOf(cols), Len(declared) + 1, Len(cols))
            = IF en_declared[1].include_remaining_columns
                THEN RemainingNames ELSE <<>>

\* C15 witness: a view with a declared column and include_remaining_columns
\* set got a hidden dataset column appended.
C15_Witness ==
  /\ en_pc = "enriched"
  /\ en_declared[1].include_remaining_columns
  /\ en_declared[1].columns # <<>>
  /\ \E i \in DOMAIN en_once[1].columns :
       /\ i > Len(en_declared[1].columns)
       /\ en_once[1].columns[i].hidden

\* C16: populate_additional_columns applied to a view it has already
\* enriched leaves the column list as it was: same length, same order, same
\* ranks and same presentation fields.
C16_EnrichmentIdempotent ==
  en_pc = "again" =>
    /\ Len(en_view[1].columns) = Len(en_once[1].columns)
    /\ \A i \in DOMAIN en_once[1].columns :
         /\ en_view[1].columns[i].name = en_once[1].columns[i].name
         /\ en_view[1].columns[i].rank = en_once[1].columns[i].rank
         /\ \A field \in PresentationFields :
              en_view[1].columns[i][field] = en_once[1].columns[i][field]

\* C16 witness: the second application ran on a view whose first application
\* appended a column and applied a per-view override.
C16_Witness ==
  /\ en_pc = "again"
  /\ en_declared[1].include_remaining_columns
  /\ Len(en_once[1].columns) > Len(en_declared[1].columns)
  /\ \E i \in DOMAIN en_once[1].columns :
       en_once[1].columns[i].name \in DOMAIN ViewOverrides

\* ------------------------------------------------------------------------
\* Properties of next_id
\* ------------------------------------------------------------------------

\* The entity kinds next_id is called for, each with the column of its rows
\* that receives the allocated id.
IdColumn == ("dataset" :> "dataset_id") @@ ("column_def" :> "column_id")
              @@ ("view" :> "view_id") @@ ("view_filter" :> "view_filter_id")

\* The ids of the rows of a kind, in the order of their INSERTs.
RECURSIVE IdsInserted(_, _)
IdsInserted(kind, n) ==
  IF n = 0 THEN <<>>
  ELSE IF db_rows[n].table = kind
    THEN Append(IdsInserted(kind, n - 1), db_rows[n].cols[IdColumn[kind]])
    ELSE IdsInserted(kind, n - 1)

\* How many ids of a kind next_id has handed out.
Allocated(kind) == IF kind \in DOMAIN ids THEN ids[kind] - 1 ELSE 0

\* C17: for every entity kind the k-th id handed out is k and is the id of
\* the k-th row inserted for the kind: the rows of the kind carry 1, 2, ...
\* in insertion order, and no id was handed out without its row.
C17_KthIdIsKAndConsumed ==
  \A kind \in DOMAIN IdColumn :
    LET inserted == IdsInserted(kind, Len(db_rows))
    IN /\ \A k \in DOMAIN inserted : inserted[k] = k
       /\ Allocated(kind) = Len(inserted)

\* ------------------------------------------------------------------------
\* Properties of two runs on the same input
\* ------------------------------------------------------------------------

SurrogateIdColumns == {"dataset_id", "column_id", "view_id", "view_filter_id"}

\* The table and the surrogate ids of every row, in the order of the INSERTs.
SurrogateIds(rows) ==
  [i \in DOMAIN rows |->
     [table |-> rows[i].table,
      ids |-> [c \in SurrogateIdColumns \cap DOMAIN rows[i].cols |->
                 rows[i].cols[c]]]]

\* C18: two DatabaseConfig instances, each constructed anew on a fresh
\* target and given the same datasets and views in the same order, insert
\* the same rows with the same surrogate ids and end the same way.
C18_SameIdsOnRerun ==
  rr_pc = "done" =>
    /\ SurrogateIds(db_rows) = SurrogateIds(rr_first[1].rows)
    /\ db_err = rr_first[1].err

\* C18 witness: both runs completed and wrote a dataset with its columns,
\* two views and a view-filter.
C18_Witness ==
  /\ rr_pc = "done"
  /\ db_err = None
  /\ \E i, j, k \in DOMAIN db_rows :
       /\ db_rows[i].table = "column_def"
       /\ db_rows[j].table = "view" /\ db_rows[j].cols.view_id = 2
       /\ db_rows[k].table = "view_filter"

\* ------------------------------------------------------------------------
\* Properties of process_filter
\* ------------------------------------------------------------------------

\* The positions <<group, member>> of the view-filters of the view at hand.
FilterPositions(groups) ==
  UNION {{<<g, f>> : f \in DOMAIN groups[g].filters} : g \in DOMAIN groups}

\* process_filter has been applied to the view-filter: run() ranks a
\* view-filter right after process_filter returned.
Resolved(view_filter) == view_filter.rank # 0

ResolvedPositions(groups) ==
  {p \in FilterPositions(groups) : Resolved(groups[p[1]].filters[p[2]])}

\* A resolved view-filter carries filter_values iff its type is select_list,
\* an unresolved one carries none, and a view whose groups are all done has
\* every view-filter resolved.
ValuesIffSelectList ==
  \A p \in FilterPositions(vp_groups) :
    LET view_filter == vp_groups[p[1]].filters[p[2]]
    IN /\ Resolved(view_filter) =>
            /\ view_filter.type # None
            /\ (view_filter.filter_values # <<>>)
                 <=> (view_filter.type = "select_list")
       /\ ~Resolved(view_filter) => view_filter.filter_values = <<>>
       /\ ViewResolved => Resolved(view_filter)

\* A step resolves at most one view-filter of the view at hand and leaves
\* every view-filter resolved before it as it is.
ResolvedOnce ==
  (vp_groups # <<>> /\ vp_groups' # <<>>) =>
    /\ \A p \in ResolvedPositions(vp_groups) :
         vp_groups'[p[1]].filters[p[2]] = vp_groups[p[1]].filters[p[2]]
    /\ Cardinality(ResolvedPositions(vp_groups'))
         <= Cardinality(ResolvedPositions(vp_groups)) + 1

\* C19: each view-filter goes from unresolved to resolved once (process_filter
\* is applied to it once) and does not change afterwards; once resolved its
\* filter_values is set iff its type is select_list.
C19_ResolvedExactlyOnce == []ValuesIffSelectList /\ [][ResolvedOnce]_vars

\* C19 witness: a view with all groups done that holds a select_list
\* view-filter with values and a view-filter of another type without.
C19_Witness ==
  /\ ViewResolved
  /\ \E p, q \in FilterPositions(vp_groups) :
       /\ vp_groups[p[1]].filters[p[2]].type = "select_list"
       /\ vp_groups[p[1]].filters[p[2]].filter_values # <<>>
       /\ vp_groups[q[1]].filters[q[2]].type \notin {"select_list", None}
       /\ vp_groups[q[1]].filters[q[2]].filter_values = <<>>

\* ------------------------------------------------------------------------
\* Properties of the soft conditions of process_filter
\* ------------------------------------------------------------------------

\* The rows the distinct-value query of a view-filter of the view at hand
\* returns.
RowsReturned(view_filter) ==
  distinct_rows(get_filter_definition(vp_filters, view_filter)[1],
                get_dataset(vp_datasets, vp_view[1].source)[1])

\* A warning of the kind was logged for the view-filter of the view at hand.
Warned(view_filter, kind) ==
  \E i \in DOMAIN vp_warnings :
    /\ vp_warnings[i].view = vp_view[1].source
    /\ vp_warnings[i].filter = view_filter.filter_id
    /\ vp_warnings[i].kind = kind

\* Every resolved select_list view-filter holds one value per row returned,
\* with a warning iff there is no row or there are more than warn_max rows.
WarningsMatchSizes ==
  \A p \in ResolvedPositions(vp_groups) :
    LET view_filter == vp_groups[p[1]].filters[p[2]]
        size == Cardinality(RowsReturned(view_filter))
    IN view_filter.type = "select_list" =>
         /\ view_filter.filter_values # <<>>
         /\ Len(view_filter.filter_values[1]) = size
         /\ Warned(view_filter, "no_values") <=> size = 0
         /\ Warned(view_filter, "over_warn_max") <=> size > vp_warn_max

\* A step that logs a warning goes on to the next view-filter, and a view
\* whose groups are all done is written next.
SoftConditionsGoOn ==
  /\ Len(vp_warnings') > Len(vp_warnings) =>
       vp_pc' # "error" /\ vp_fi' = vp_fi + 1
  /\ ViewResolved => vp_written' = Append(vp_written, vp_view[1].id)

\* C20: an empty distinct-value result gives filter_values = [] and a
\* warning, a result of more than warn_max rows gives a warning and keeps
\* every value, a result of 1..warn_max rows gives no warning; none of them
\* ends the run, and the view document is written.
C20_SoftConditionsNeverAbort ==
  []WarningsMatchSizes /\ [][SoftConditionsGoOn]_vars

\* C20 witness: the run wrote two view documents after it warned about an
\* empty result and about a result over warn_max.
C20_Witness ==
  /\ Len(vp_written) = 2
  /\ \E i, j \in DOMAIN vp_warnings :
       /\ vp_warnings[i].kind = "no_values"
       /\ vp_warnings[j].kind = "over_warn_max"

\* ------------------------------------------------------------------------
\* Properties of the order of the stages
\* ------------------------------------------------------------------------

\* C21: no view document is written while a view is still to be resolved
\* or enriched: once vp_written holds a document, the loop over self.views
\* has taken every view through filter resolution and enrichment.
C21_StagesCompleteOverAllViews ==
  vp_written # <<>> => vp_vi > vp_nviews

\* C22: every column of a view that left enrichment names a column of the
\* view's source dataset, so the lookup of its surrogate id cannot fail.
C22_ColumnsNameDatasetColumns ==
  en_pc = "enriched" =>
    Range(NamesOf(en_once[1].columns)) \subseteq Range(NamesOf(DatasetColumns))
====
